---- MODULE Spec2Model ----
(***************************************************************************)
(* Model of src/src/main.py: per-key min / mean / max of a "key;value"     *)
(* file, computed over line-aligned byte ranges by a pool of workers and   *)
(* merged into one table.                                                  *)
(*                                                                         *)
(* Representation                                                          *)
(*   byte, character : its integer code (10 = "\n", 59 = ";", 32 = " ")    *)
(*   bytes, str      : a sequence of codes                                 *)
(*   float           : an integer number of tenths (1.0 is 10), or NaN     *)
(*   [min,max,sum,n] : a 4-tuple                                           *)
(*   dict            : a function from keys (strs) to 4-tuples             *)
(***************************************************************************)
EXTENDS Integers, Sequences, FiniteSets, TLC

VARIABLES
    file,           \* the bytes of the input file
    cpu_count,      \* os.cpu_count() or 1
    pc,             \* position of main
    boundaries,     \* main's list of (start, end)
    futures,        \* the futures list of main, one record per submitted task
    overall_stats,  \* main's accumulator dict
    out_open,       \* TRUE once open(output_file, "w") has been executed
    out_rows,       \* the rows written to the output file so far
    todo,           \* the sorted keys the writing loop has still to visit
    io_fault,       \* TRUE once the environment has made an I/O call fail
    stats1,         \* merge_stats called on its own: first argument (updated in place)
    stats2,         \* merge_stats called on its own: second argument
    stats3,         \* a third table, for regrouping
    pre1,           \* the value stats1 had before the call
    pre2,           \* the value stats2 had before the call
    m_pc,           \* position of the merge_stats calls
    m_ret,          \* which object merge_stats returned
    heap,           \* the [min,max,sum,n] list objects of these tables, by identity
    ref1,           \* the list object stats1 holds for each key
    ref2,           \* the list object stats2 holds for each key
    ref3,           \* the list object the third table holds for each key
    r_x,            \* round_up called on its own: argument (a rational)
    r_res,          \* round_up called on its own: result in tenths
    r_pc,           \* position of the round_up call
    c_lines,        \* process_chunk_lines called on its own: lines
    c_threads,      \* process_chunk_lines called on its own: num_threads
    c_res,          \* the table the call returned
    c_pc            \* position of the process_chunk_lines call

vars == <<file, cpu_count, pc, boundaries, futures, overall_stats, out_open,
          out_rows, todo, io_fault, stats1, stats2, stats3, pre1, pre2, m_pc,
          m_ret, heap, ref1, ref2, ref3,
          r_x, r_res, r_pc, c_lines, c_threads, c_res, c_pc>>

mainVars  == <<file, cpu_count, pc, boundaries, futures, overall_stats,
               out_open, out_rows, todo, io_fault>>
mergeVars == <<stats1, stats2, stats3, pre1, pre2, m_pc, m_ret, heap, ref1,
               ref2, ref3>>
roundVars == <<r_x, r_res, r_pc>>
chunkVars == <<c_lines, c_threads, c_res, c_pc>>

----------------------------------------------------------------------------
(* Bounds *)

MaxLines   == 2    \* lines per input file of the pipeline
MaxCpu     == 3    \* os.cpu_count()
MaxFileLen == 6    \* bytes per file of the layout files
MaxTenths  == 2    \* tables merged on their own hold 10, 20, .. 10 * MaxTenths
MaxMilli   == 40   \* round_up on its own: |x| <= MaxMilli / 1000
MaxChunkLines == 4 \* process_chunk_lines on its own: len(lines)

----------------------------------------------------------------------------
(* Characters *)

NL   == 10    \* b'\n'
SEMI == 59    \* ";"

\* float('nan'); every ordered comparison with it is false
NaN == 0 - 999999

\* str.strip() removes these (ASCII whitespace)
Whitespace == {9, 10, 11, 12, 13, 28, 29, 30, 31, 32}

Digits == 48 .. 57

----------------------------------------------------------------------------
(* Python built-ins used by the program *)

\* a < b on floats
flt(a, b) == a # NaN /\ b # NaN /\ a < b

\* min(a, b): the first argument unless the second is smaller
pymin(a, b) == IF flt(b, a) THEN b ELSE a

\* max(a, b): the first argument unless the second is larger
pymax(a, b) == IF flt(a, b) THEN b ELSE a

\* a + b on floats
fadd(a, b) == IF a = NaN \/ b = NaN THEN NaN ELSE a + b

\* s[i:j] with 0-based i, j (clipped to the length)
Slice(s, i, j) ==
    LET hi == IF j < Len(s) THEN j ELSE Len(s)
    IN  IF i >= hi THEN <<>> ELSE [k \in 1 .. (hi - i) |-> s[i + k]]

RECURSIVE lstrip(_)
lstrip(s) ==
    IF s # <<>> /\ Head(s) \in Whitespace THEN lstrip(Tail(s)) ELSE s

RECURSIVE rstrip(_)
rstrip(s) ==
    IF s # <<>> /\ s[Len(s)] \in Whitespace
    THEN rstrip(SubSeq(s, 1, Len(s) - 1)) ELSE s

\* str.strip()
strip(s) == rstrip(lstrip(s))

\* s.split(sep): the fields between the occurrences of sep
RECURSIVE split_from(_, _, _, _)
split_from(s, sep, i, cur) ==
    IF i > Len(s) THEN <<cur>>
    ELSE IF s[i] = sep THEN <<cur>> \o split_from(s, sep, i + 1, <<>>)
    ELSE split_from(s, sep, i + 1, Append(cur, s[i]))

split(s, sep) == split_from(s, sep, 1, <<>>)

\* bytes.decode('utf-8') succeeds; a byte >= 0xF8 can start no sequence, and
\* the only byte >= 0x80 of the modelled inputs is 0xFF
decodes(bline) == \A i \in 1 .. Len(bline) : bline[i] < 128

RECURSIVE DecVal(_)
DecVal(ds) ==
    IF ds = <<>> THEN 0 ELSE 10 * DecVal(SubSeq(ds, 1, Len(ds) - 1)) + (ds[Len(ds)] - 48)

\* the characters "nan" (float() ignores case; the inputs are lower case)
NanWord == <<110, 97, 110>>

\* float(s) on the strs of the modelled inputs (digits, sign, ".", letters,
\* blank, ";"; at most one digit after the "."):  [sign] digits ["." [digit]],
\* [sign] "." digit, or [sign] nan; anything else raises ValueError
float_body(s) ==
    LET t == strip(s)
    IN  IF t # <<>> /\ Head(t) \in {43, 45} THEN Tail(t) ELSE t

\* the digits before the "." (all of b when there is none)
int_part(b) ==
    IF \E i \in 1 .. Len(b) : b[i] = 46
    THEN SubSeq(b, 1, (CHOOSE i \in 1 .. Len(b) :
                          b[i] = 46 /\ \A j \in 1 .. (i - 1) : b[j] # 46) - 1)
    ELSE b

\* the characters after the first "."
frac_part(b) ==
    IF \E i \in 1 .. Len(b) : b[i] = 46
    THEN SubSeq(b, Len(int_part(b)) + 2, Len(b))
    ELSE <<>>

all_digits(ds) == \A i \in 1 .. Len(ds) : ds[i] \in Digits

float_raises(s) ==
    LET b == float_body(s)
    IN  ~ \/ b = NanWord
          \/ /\ all_digits(int_part(b))
             /\ all_digits(frac_part(b))
             /\ Len(frac_part(b)) <= 1
             /\ Len(int_part(b)) + Len(frac_part(b)) >= 1

\* the value in tenths
float(s) ==
    LET t   == strip(s)
        b   == float_body(s)
        mag == 10 * DecVal(int_part(b)) + DecVal(frac_part(b))
    IN  IF b = NanWord THEN NaN
        ELSE IF t # <<>> /\ Head(t) = 45 THEN 0 - mag
        ELSE mag

\* math.ceil(n / d) for d > 0
ceil(n, d) == 0 - ((0 - n) \div d)

\* a float as a rational n / d (d > 0); NaN is Rat(NaN, 1)
Rat(n, d) == [n |-> n, d |-> d]

\* s / cnt for a float s in tenths and an int cnt >= 1
fdiv(s, cnt) == IF s = NaN THEN Rat(NaN, 1) ELSE Rat(s, 10 * cnt)

\* a float held in tenths, as a rational
tenths(v) == IF v = NaN THEN Rat(NaN, 1) ELSE Rat(v, 10)

----------------------------------------------------------------------------
(* Top-level helper functions *)

factor == 10   \* 10 ** digits, digits = 1

\* math.ceil raises ValueError on NaN
round_up_raises(x) == x.n = NaN

\* as round_up, but truncating toward zero (int(x * factor)) instead of ceil
round_up_trunc(x) ==
    IF x.n >= 0 THEN (x.n * factor) \div x.d ELSE ceil(x.n * factor, x.d)

\* round_up(x): the result, in tenths
round_up(x) == ceil(x.n * factor, x.d)

\* the dict after stats[city] = data
dict_set(stats, city, data) ==
    [c \in (DOMAIN stats) \cup {city} |-> IF c = city THEN data ELSE stats[c]]

\* as merge_stats, but storing stats2's aggregate also for a key stats1 has
merge_stats_overwrite(s1, s2) ==
    [city \in (DOMAIN s1) \cup (DOMAIN s2) |->
        IF city \in DOMAIN s2 THEN s2[city] ELSE s1[city]]

\* merge_stats(stats1, stats2): the contents of stats1 when it returns
merge_stats(s1, s2) ==
    [city \in (DOMAIN s1) \cup (DOMAIN s2) |->
        IF city \in DOMAIN s2
        THEN IF city \in DOMAIN s1
             THEN <<pymin(s1[city][1], s2[city][1]),
                    pymax(s1[city][2], s2[city][2]),
                    fadd(s1[city][3], s2[city][3]),
                    s1[city][4] + s2[city][4]>>
             ELSE s2[city]
        ELSE s1[city]]

\* an empty defaultdict(default_stats)
EmptyStats == <<>>

\* The same call on list objects. An object is named <<tag, city>>: tags 1, 2
\* and 3 are the lists the three tables hold when they are built, and fresh
\* is the tag of the lists this call creates. h maps objects to their
\* contents, r1 and r2 map the keys of the two dicts to the objects they hold.

\* as merge_stats_refs, but a key of both tables has its list in stats1
\* updated in place (s1[0] = min(s1[0], data[0]), ...) instead of replaced
merge_stats_refs_inplace(h, r1, r2, fresh) ==
    LET both    == (DOMAIN r1) \cap (DOMAIN r2)
        updated == { r1[city] : city \in both }
    IN  [heap |-> [o \in DOMAIN h |->
                      IF o \in updated
                      THEN LET s1   == h[o]
                               data == h[r2[o[2]]]
                           IN  <<pymin(s1[1], data[1]), pymax(s1[2], data[2]),
                                 fadd(s1[3], data[3]), s1[4] + data[4]>>
                      ELSE h[o]],
         refs |-> [city \in (DOMAIN r1) \cup (DOMAIN r2) |->
                      IF city \in DOMAIN r1 THEN r1[city] ELSE r2[city]]]

\* merge_stats(stats1, stats2): stats1[city] = [min(..), ..] binds a new
\* list, stats1[city] = data binds the list stats2 holds
merge_stats_refs(h, r1, r2, fresh) ==
    LET both    == (DOMAIN r1) \cap (DOMAIN r2)
        created == { <<fresh, city>> : city \in both }
    IN  [heap |-> [o \in (DOMAIN h) \cup created |->
                      IF o \in created
                      THEN LET s1   == h[r1[o[2]]]
                               data == h[r2[o[2]]]
                           IN  <<pymin(s1[1], data[1]), pymax(s1[2], data[2]),
                                 fadd(s1[3], data[3]), s1[4] + data[4]>>
                      ELSE h[o]],
         refs |-> [city \in (DOMAIN r1) \cup (DOMAIN r2) |->
                      IF city \in both THEN <<fresh, city>>
                      ELSE IF city \in DOMAIN r2 THEN r2[city]
                      ELSE r1[city]]]

\* the list objects of three tables built independently of each other
NewRefs(s, tag) == [city \in DOMAIN s |-> <<tag, city>>]

NewHeap(s1, s2, s3) ==
    [o \in { <<1, city>> : city \in DOMAIN s1 }
           \cup { <<2, city>> : city \in DOMAIN s2 }
           \cup { <<3, city>> : city \in DOMAIN s3 } |->
        IF o[1] = 1 THEN s1[o[2]] ELSE IF o[1] = 2 THEN s2[o[2]] ELSE s3[o[2]]]

\* the contents of the dict that holds the objects r
Deref(h, r) == [city \in DOMAIN r |-> h[r[city]]]

----------------------------------------------------------------------------
(* Subchunk processing *)

\* as subchunk_step, but a line is skipped only when it has fewer than two
\* fields: the first two fields of a longer line are used
subchunk_step_first_two(stats, rawline) ==
    LET line  == strip(rawline)
        parts == split(line, SEMI)
    IN  IF line = <<>> THEN stats
        ELSE IF Len(parts) < 2 THEN stats
        ELSE LET city == strip(parts[1])
             IN  IF float_raises(parts[2]) THEN stats
                 ELSE LET value == float(parts[2])
                      IN  IF city \notin DOMAIN stats
                          THEN dict_set(stats, city, <<value, value, value, 1>>)
                          ELSE dict_set(stats, city,
                                   <<pymin(stats[city][1], value),
                                     pymax(stats[city][2], value),
                                     fadd(stats[city][3], value),
                                     stats[city][4] + 1>>)

\* one iteration of the loop of process_subchunk
subchunk_step(stats, rawline) ==
    LET line  == strip(rawline)
        parts == split(line, SEMI)
    IN  IF line = <<>> THEN stats
        ELSE IF Len(parts) # 2 THEN stats
        ELSE LET city == strip(parts[1])
             IN  IF float_raises(parts[2]) THEN stats
                 ELSE LET value == float(parts[2])
                      IN  IF city \notin DOMAIN stats
                          THEN dict_set(stats, city, <<value, value, value, 1>>)
                          ELSE dict_set(stats, city,
                                   <<pymin(stats[city][1], value),
                                     pymax(stats[city][2], value),
                                     fadd(stats[city][3], value),
                                     stats[city][4] + 1>>)

RECURSIVE subchunk_loop(_, _)
subchunk_loop(lines, stats) ==
    IF lines = <<>> THEN stats
    ELSE subchunk_loop(Tail(lines), subchunk_step(stats, Head(lines)))

process_subchunk(lines) == subchunk_loop(lines, EmptyStats)

\* [lines[i:i+size] for i in range(0, len(lines), size)]
RECURSIVE subchunks_from(_, _, _)
subchunks_from(lines, size, i) ==
    IF i >= Len(lines) THEN <<>>
    ELSE <<Slice(lines, i, i + size)>> \o subchunks_from(lines, size, i + size)

\* for subdict in results: merge_stats(combined_stats, subdict)
RECURSIVE merge_all(_, _)
merge_all(combined, results) ==
    IF results = <<>> THEN combined
    ELSE merge_all(merge_stats(combined, Head(results)), Tail(results))

process_chunk_lines(lines, num_threads) ==
    IF Len(lines) < num_threads THEN process_subchunk(lines)
    ELSE LET q             == Len(lines) \div num_threads
             subchunk_size == IF q > 1 THEN q ELSE 1
             subchunks     == subchunks_from(lines, subchunk_size, 0)
             results       == [k \in 1 .. Len(subchunks) |->
                                   process_subchunk(subchunks[k])]
         IN  merge_all(EmptyStats, results)

----------------------------------------------------------------------------
(* A file chunk *)

\* mmap.mmap(f.fileno(), 0, ...) raises ValueError on an empty file
mmap_raises(f) == Len(f) = 0

\* the decodable lines of chunk_data.split(b'\n')
decoded_lines(chunk_data) ==
    SelectSeq(split(chunk_data, NL), decodes)

process_file_chunk(f, start, end, num_threads) ==
    process_chunk_lines(decoded_lines(Slice(f, start, end)), num_threads)

\* as readline_end, but stopping in front of the line terminator
RECURSIVE readline_end_before_nl(_, _)
readline_end_before_nl(f, pos) ==
    IF pos >= Len(f) THEN Len(f)
    ELSE IF f[pos + 1] = NL THEN pos
    ELSE readline_end_before_nl(f, pos + 1)

\* f.seek(pos); f.readline(); the position f.tell() afterwards
RECURSIVE readline_end(_, _)
readline_end(f, pos) ==
    IF pos >= Len(f) THEN Len(f)
    ELSE IF f[pos + 1] = NL THEN pos + 1
    ELSE readline_end(f, pos + 1)

\* as boundaries_loop, but the next chunk starts at the stride, not at end
RECURSIVE boundaries_loop_stride(_, _, _, _, _)
boundaries_loop_stride(f, chunk_size, num_chunks, i, start) ==
    IF i >= num_chunks THEN <<>>
    ELSE LET pos == start + chunk_size
             end == IF pos >= Len(f) THEN Len(f) ELSE readline_end(f, pos)
         IN  <<(<<start, end>>)>> \o
             boundaries_loop_stride(f, chunk_size, num_chunks, i + 1,
                                    IF pos >= Len(f) THEN Len(f) ELSE pos)

\* as boundaries_loop, but without the readline that moves end to a line end
RECURSIVE boundaries_loop_noalign(_, _, _, _, _)
boundaries_loop_noalign(f, chunk_size, num_chunks, i, start) ==
    IF i >= num_chunks THEN <<>>
    ELSE LET pos == start + chunk_size
             end == IF pos >= Len(f) THEN Len(f) ELSE pos
         IN  <<(<<start, end>>)>> \o
             boundaries_loop_noalign(f, chunk_size, num_chunks, i + 1, end)

\* the loop of get_chunk_boundaries, from iteration i on
RECURSIVE boundaries_loop(_, _, _, _, _)
boundaries_loop(f, chunk_size, num_chunks, i, start) ==
    IF i >= num_chunks THEN <<>>
    ELSE LET pos == start + chunk_size
             end == IF pos >= Len(f) THEN Len(f) ELSE readline_end(f, pos)
         IN  <<(<<start, end>>)>> \o
             boundaries_loop(f, chunk_size, num_chunks, i + 1, end)

\* boundaries[-1] = (boundaries[-1][0], file_size)
force_last(bs, file_size) ==
    IF bs = <<>> THEN bs
    ELSE [bs EXCEPT ![Len(bs)] = <<bs[Len(bs)][1], file_size>>]

\* as get_chunk_boundaries, but an iteration that reads nothing appends no
\* range
get_chunk_boundaries_nonempty(f, num_chunks) ==
    LET file_size  == Len(f)
        chunk_size == file_size \div num_chunks
        NonEmpty(r) == r[1] # r[2]
    IN  force_last(SelectSeq(boundaries_loop(f, chunk_size, num_chunks, 0, 0),
                             NonEmpty),
                   file_size)

get_chunk_boundaries(f, num_chunks) ==
    LET file_size  == Len(f)
        chunk_size == file_size \div num_chunks
    IN  force_last(boundaries_loop(f, chunk_size, num_chunks, 0, 0), file_size)

----------------------------------------------------------------------------
(* sorted(overall_stats.keys()) *)

RECURSIVE str_lt(_, _)
str_lt(a, b) ==
    IF b = <<>> THEN FALSE
    ELSE IF a = <<>> THEN TRUE
    ELSE IF Head(a) # Head(b) THEN Head(a) < Head(b)
    ELSE str_lt(Tail(a), Tail(b))

RECURSIVE sorted(_)
sorted(S) ==
    IF S = {} THEN <<>>
    ELSE LET least == CHOOSE a \in S : \A b \in S \ {a} : str_lt(a, b)
         IN  <<least>> \o sorted(S \ {least})

----------------------------------------------------------------------------
(* Inputs *)

\* "a;1" "a;.5" "b;-1" "a;nan" "b" "a;b" "a;1\xff" ";1" " a ;2 " "a;1;2" ""
LineCatalog ==
    { <<97, 59, 49>>, <<97, 59, 46, 53>>, <<98, 59, 45, 49>>,
      <<97, 59, 110, 97, 110>>, <<98>>, <<97, 59, 98>>, <<97, 59, 49, 255>>,
      <<59, 49>>, <<32, 97, 32, 59, 50, 32>>, <<97, 59, 49, 59, 50>>, <<>> }

\* the lines joined by "\n", with a final "\n" iff final_nl
RECURSIVE join_lines(_, _)
join_lines(ls, final_nl) ==
    IF ls = <<>> THEN <<>>
    ELSE IF Len(ls) = 1 THEN Head(ls) \o (IF final_nl THEN <<NL>> ELSE <<>>)
    ELSE Head(ls) \o <<NL>> \o join_lines(Tail(ls), final_nl)

\* files of records: up to MaxLines catalogue lines
RecordFiles ==
    { join_lines(ls, nl) :
        ls \in UNION { [1 .. k -> LineCatalog] : k \in 0 .. MaxLines },
        nl \in BOOLEAN }

\* files of every line layout: all byte strings over "\n" and "b"
LayoutFiles ==
    UNION { [1 .. k -> {NL, 98}] : k \in 0 .. MaxFileLen }

\* the floats of the tables merged on their own
TestFloats == {NaN} \cup { 10 * k : k \in 1 .. MaxTenths }

\* their keys: "a", "b"
TestKeys == { <<97>>, <<98>> }

\* the aggregate process_subchunk builds from the values vs (Len(vs) >= 1)
RECURSIVE aggregate_of(_)
aggregate_of(vs) ==
    IF Len(vs) = 1 THEN <<vs[1], vs[1], vs[1], 1>>
    ELSE LET p == aggregate_of(SubSeq(vs, 1, Len(vs) - 1))
             v == vs[Len(vs)]
         IN  <<pymin(p[1], v), pymax(p[2], v), fadd(p[3], v), p[4] + 1>>

\* aggregates of one or two observations
TestAggregates ==
    { aggregate_of(vs) : vs \in [1 .. 1 -> TestFloats] \cup [1 .. 2 -> TestFloats] }

\* tables over TestKeys; "a" holds any of these aggregates, "b" a single
\* observation
TestTables ==
    { [c \in K |-> IF c = <<97>> THEN x ELSE <<y, y, y, 1>>] :
        K \in SUBSET TestKeys, x \in TestAggregates, y \in TestFloats }

\* lines of process_chunk_lines on its own: "a;1" "a;2" "a;nan" "b;1" ""
ChunkLineCatalog ==
    { <<97, 59, 49>>, <<97, 59, 50>>, <<97, 59, 110, 97, 110>>,
      <<98, 59, 49>>, <<>> }

\* arguments of round_up on its own, as rationals n / 1000
RoundInputs ==
    { Rat(n, 1000) : n \in ((0 - MaxMilli) .. MaxMilli) \cup {2341, 0 - 150, 3000} }

----------------------------------------------------------------------------
(* main *)

Pending  == [state |-> "pending",  exc |-> FALSE, result |-> EmptyStats]

FutureDone(res) == [state |-> "finished", exc |-> FALSE, result |-> res]

FutureRaised    == [state |-> "finished", exc |-> TRUE,  result |-> EmptyStats]

IdleMerge ==
    /\ stats1 = EmptyStats /\ stats2 = EmptyStats /\ stats3 = EmptyStats
    /\ pre1 = EmptyStats /\ pre2 = EmptyStats /\ m_pc = "idle" /\ m_ret = "none"
    /\ heap = <<>> /\ ref1 = <<>> /\ ref2 = <<>> /\ ref3 = <<>>

IdleRound == r_x = Rat(0, 1) /\ r_res = 0 /\ r_pc = "idle"

IdleChunk ==
    /\ c_lines = <<>> /\ c_threads = 1 /\ c_res = EmptyStats /\ c_pc = "idle"

IdleMain ==
    /\ file = <<>> /\ cpu_count = 1 /\ pc = "idle" /\ boundaries = <<>>
    /\ futures = <<>> /\ overall_stats = EmptyStats /\ out_open = FALSE
    /\ out_rows = <<>> /\ todo = <<>> /\ io_fault = FALSE

\* main is called on some input file, on a machine with cpu_count cores
InitMain ==
    /\ file \in RecordFiles \cup LayoutFiles
    /\ cpu_count \in 1 .. MaxCpu
    /\ pc = "start" /\ boundaries = <<>> /\ futures = <<>>
    /\ overall_stats = EmptyStats /\ out_open = FALSE /\ out_rows = <<>>
    /\ todo = <<>> /\ io_fault = FALSE
    /\ IdleMerge /\ IdleRound /\ IdleChunk

\* merge_stats is called on two tables (a third is merged afterwards)
InitMerge ==
    /\ stats1 \in TestTables /\ stats2 \in TestTables /\ stats3 \in TestTables
    /\ pre1 = stats1 /\ pre2 = stats2 /\ m_pc = "ready" /\ m_ret = "none"
    /\ heap = NewHeap(stats1, stats2, stats3)
    /\ ref1 = NewRefs(stats1, 1) /\ ref2 = NewRefs(stats2, 2)
    /\ ref3 = NewRefs(stats3, 3)
    /\ IdleMain /\ IdleRound /\ IdleChunk

\* round_up is called on a value
InitRound ==
    /\ r_x \in RoundInputs /\ r_res = 0 /\ r_pc = "ready"
    /\ IdleMain /\ IdleMerge /\ IdleChunk

\* process_chunk_lines is called on a list of lines
InitChunk ==
    /\ c_lines \in UNION { [1 .. n -> ChunkLineCatalog] : n \in 0 .. MaxChunkLines }
    /\ c_threads \in 1 .. MaxCpu
    /\ c_res = EmptyStats /\ c_pc = "ready"
    /\ IdleMain /\ IdleMerge /\ IdleRound

Init == InitMain \/ InitMerge \/ InitRound \/ InitChunk

\* boundaries = get_chunk_boundaries(input_file, num_processes)
Split ==
    /\ pc = "start"
    /\ boundaries' = get_chunk_boundaries(file, cpu_count)
    /\ pc' = "submit"
    /\ UNCHANGED <<file, cpu_count, futures, overall_stats, out_open, out_rows,
                   todo, io_fault, mergeVars, roundVars, chunkVars>>

\* os.path.getsize or open raises inside get_chunk_boundaries
SplitFail ==
    /\ pc = "start"
    /\ pc' = "failed"
    /\ io_fault' = TRUE
    /\ UNCHANGED <<file, cpu_count, boundaries, futures, overall_stats,
                   out_open, out_rows, todo, mergeVars, roundVars, chunkVars>>

\* futures = [executor.submit(process_file_chunk, ...) for (start, end) in boundaries]
Submit ==
    /\ pc = "submit"
    /\ futures' = [i \in 1 .. Len(boundaries) |-> Pending]
    /\ pc' = "collect"
    /\ UNCHANGED <<file, cpu_count, boundaries, overall_stats, out_open,
                   out_rows, todo, io_fault, mergeVars, roundVars, chunkVars>>

\* the worker process of task i runs process_file_chunk to its end
WorkerRun(i) ==
    /\ futures[i].state = "pending"
    /\ futures' = [futures EXCEPT ![i] =
          IF mmap_raises(file) THEN FutureRaised
          ELSE FutureDone(process_file_chunk(file, boundaries[i][1],
                                             boundaries[i][2], cpu_count))]
    /\ UNCHANGED <<file, cpu_count, pc, boundaries, overall_stats, out_open,
                   out_rows, todo, io_fault, mergeVars, roundVars, chunkVars>>

\* open or mmap fails in the worker process of task i
WorkerFail(i) ==
    /\ futures[i].state = "pending"
    /\ futures' = [futures EXCEPT ![i] = FutureRaised]
    /\ io_fault' = TRUE
    /\ UNCHANGED <<file, cpu_count, pc, boundaries, overall_stats, out_open,
                   out_rows, todo, mergeVars, roundVars, chunkVars>>

\* as Collect, but a task that raised is skipped instead of re-raised
Collect_swallow(i) ==
    /\ pc = "collect"
    /\ futures[i].state = "finished"
    /\ futures' = [futures EXCEPT ![i].state = "yielded"]
    /\ overall_stats' = merge_stats(overall_stats, futures[i].result)
    /\ UNCHANGED <<file, cpu_count, pc, boundaries, out_open, out_rows, todo,
                   io_fault, mergeVars, roundVars, chunkVars>>

\* as Collect, but merge_stats(overall_stats, chunk_stats) is executed twice
Collect_twice(i) ==
    /\ pc = "collect"
    /\ futures[i].state = "finished"
    /\ futures' = [futures EXCEPT ![i].state = "yielded"]
    /\ IF futures[i].exc
       THEN pc' = "failed" /\ UNCHANGED overall_stats
       ELSE /\ overall_stats' =
                   merge_stats(merge_stats(overall_stats, futures[i].result),
                               futures[i].result)
            /\ UNCHANGED pc
    /\ UNCHANGED <<file, cpu_count, boundaries, out_open, out_rows, todo,
                   io_fault, mergeVars, roundVars, chunkVars>>

\* as_completed yields future i; chunk_stats = future.result(); merge_stats(...)
Collect(i) ==
    /\ pc = "collect"
    /\ futures[i].state = "finished"
    /\ futures' = [futures EXCEPT ![i].state = "yielded"]
    /\ IF futures[i].exc
       THEN pc' = "failed" /\ UNCHANGED overall_stats
       ELSE /\ overall_stats' = merge_stats(overall_stats, futures[i].result)
            /\ UNCHANGED pc
    /\ UNCHANGED <<file, cpu_count, boundaries, out_open, out_rows, todo,
                   io_fault, mergeVars, roundVars, chunkVars>>

\* as OpenOutput, but reached as soon as one task has been merged
OpenOutput_early ==
    /\ pc = "collect"
    /\ \E i \in 1 .. Len(futures) : futures[i].state = "yielded"
    /\ out_open' = TRUE
    /\ todo' = sorted(DOMAIN overall_stats)
    /\ pc' = "write"
    /\ UNCHANGED <<file, cpu_count, boundaries, futures, overall_stats,
                   out_rows, io_fault, mergeVars, roundVars, chunkVars>>

\* with open(output_file, "w") as fout: for city in sorted(overall_stats.keys())
OpenOutput ==
    /\ pc = "collect"
    /\ \A i \in 1 .. Len(futures) : futures[i].state = "yielded"
    /\ out_open' = TRUE
    /\ todo' = sorted(DOMAIN overall_stats)
    /\ pc' = "write"
    /\ UNCHANGED <<file, cpu_count, boundaries, futures, overall_stats,
                   out_rows, io_fault, mergeVars, roundVars, chunkVars>>

\* one iteration of the writing loop
WriteRow ==
    /\ pc = "write"
    /\ todo # <<>>
    /\ LET city == Head(todo)
           m    == overall_stats[city][1]
           M    == overall_stats[city][2]
           s    == overall_stats[city][3]
           cnt  == overall_stats[city][4]
           avg  == fdiv(s, cnt)
       IN  IF round_up_raises(tenths(m)) \/ round_up_raises(avg)
              \/ round_up_raises(tenths(M))
           THEN pc' = "failed" /\ UNCHANGED <<out_rows, todo>>
           ELSE /\ out_rows' = Append(out_rows,
                       <<city, round_up(tenths(m)), round_up(avg),
                         round_up(tenths(M))>>)
                /\ todo' = Tail(todo)
                /\ UNCHANGED pc
    /\ UNCHANGED <<file, cpu_count, boundaries, futures, overall_stats,
                   out_open, io_fault, mergeVars, roundVars, chunkVars>>

\* the loop ends and the file is closed
Close ==
    /\ pc = "write"
    /\ todo = <<>>
    /\ pc' = "done"
    /\ UNCHANGED <<file, cpu_count, boundaries, futures, overall_stats,
                   out_open, out_rows, todo, io_fault, mergeVars, roundVars, chunkVars>>

----------------------------------------------------------------------------
(* merge_stats and round_up on their own *)

\* merge_stats(stats1, stats2)
MergeCall ==
    /\ m_pc = "ready"
    /\ stats1' = merge_stats(stats1, stats2)
    /\ LET m == merge_stats_refs(heap, ref1, ref2, 4)
       IN  heap' = m.heap /\ ref1' = m.refs
    /\ m_ret' = "stats1"
    /\ m_pc' = "called"
    /\ UNCHANGED <<stats2, stats3, pre1, pre2, ref2, ref3, mainVars, roundVars,
                   chunkVars>>

\* then merge_stats(stats1, stats3)
MergeAgain ==
    /\ m_pc = "called"
    /\ stats1' = merge_stats(stats1, stats3)
    /\ LET m == merge_stats_refs(heap, ref1, ref3, 5)
       IN  heap' = m.heap /\ ref1' = m.refs
    /\ m_ret' = "stats1"
    /\ m_pc' = "again"
    /\ UNCHANGED <<stats2, stats3, pre1, pre2, ref2, ref3, mainVars, roundVars,
                   chunkVars>>

\* round_up(x)
RoundCall ==
    /\ r_pc = "ready"
    /\ r_res' = round_up(r_x)
    /\ r_pc' = "called"
    /\ UNCHANGED <<r_x, mainVars, mergeVars, chunkVars>>

\* process_chunk_lines(lines, num_threads)
ChunkCall ==
    /\ c_pc = "ready"
    /\ c_res' = process_chunk_lines(c_lines, c_threads)
    /\ c_pc' = "called"
    /\ UNCHANGED <<c_lines, c_threads, mainVars, mergeVars, roundVars>>

Next ==
    \/ Split
    \/ SplitFail
    \/ Submit
    \/ \E i \in 1 .. Len(futures) : WorkerRun(i)
    \/ \E i \in 1 .. Len(futures) : WorkerFail(i)
    \/ \E i \in 1 .. Len(futures) : Collect(i)
    \/ OpenOutput
    \/ WriteRow
    \/ Close
    \/ MergeCall
    \/ MergeAgain
    \/ RoundCall
    \/ ChunkCall

Spec == Init /\ [][Next]_vars

----------------------------------------------------------------------------
(* Properties *)

\* the ranges that contain byte offset p
RangesOf(p) ==
    { i \in 1 .. Len(boundaries) : boundaries[i][1] <= p /\ p < boundaries[i][2] }

\* C1: after get_chunk_boundaries, the ranges are contiguous and partition
\* [0, file_length): the first starts at 0, each starts where the previous one
\* ends, start <= end, the last ends at file_length, and every byte lies in
\* exactly one range
C1_Partition ==
    pc = "submit" =>
        /\ Len(boundaries) = cpu_count
        /\ boundaries[1][1] = 0
        /\ boundaries[Len(boundaries)][2] = Len(file)
        /\ \A i \in 1 .. Len(boundaries) : boundaries[i][1] <= boundaries[i][2]
        /\ \A i \in 1 .. (Len(boundaries) - 1) :
               boundaries[i + 1][1] = boundaries[i][2]
        /\ \A p \in 0 .. (Len(file) - 1) : Cardinality(RangesOf(p)) = 1

\* a file without a final newline is split into several ranges, the first of
\* which ends past its stride, inside the file
C1_Witness ==
    /\ pc = "submit"
    /\ cpu_count >= 2
    /\ Len(file) >= 4
    /\ file[Len(file)] # NL
    /\ boundaries[1][2] > Len(file) \div cpu_count + 1
    /\ boundaries[1][2] < Len(file)

\* offset p is the start of the file or follows a line terminator
AfterTerminator(p) == p = 0 \/ file[p] = NL

\* the offsets at which a line of the file starts
LineStarts == { p \in 0 .. (Len(file) - 1) : AfterTerminator(p) }

\* the offset just past the line that starts at p
LineEnd(p) ==
    CHOOSE q \in (p + 1) .. Len(file) :
        /\ q = Len(file) \/ file[q] = NL
        /\ \A r \in (p + 1) .. (q - 1) : file[r] # NL

\* every line of the file lies inside exactly one range
LinesWhole ==
    \A p \in LineStarts :
        Cardinality({ i \in 1 .. Len(boundaries) :
                        /\ boundaries[i][1] <= p
                        /\ LineEnd(p) <= boundaries[i][2] }) = 1

\* C2 as claimed: every range starts at 0 or just after a newline and ends
\* at file_length or just after a newline, so every line of the file lies
\* inside exactly one range
C2_Original ==
    pc = "submit" =>
        /\ \A i \in 1 .. Len(boundaries) :
               /\ AfterTerminator(boundaries[i][1])
               /\ boundaries[i][2] = Len(file) \/ AfterTerminator(boundaries[i][2])
        /\ LinesWhole

\* C2 as amended: every range starts at 0, just after a newline, or (an empty
\* range) at file_length, and ends at file_length or just after a newline;
\* every line of the file lies inside exactly one range
C2_LineAligned ==
    pc = "submit" =>
        /\ \A i \in 1 .. Len(boundaries) :
               /\ \/ AfterTerminator(boundaries[i][1])
                  \/ /\ boundaries[i][1] = Len(file)
                     /\ boundaries[i][2] = Len(file)
               /\ boundaries[i][2] = Len(file) \/ AfterTerminator(boundaries[i][2])
        /\ LinesWhole

\* the stride of the first range points into the middle of a line, and the
\* range was extended over at least two more bytes to the end of that line
C2_Witness ==
    /\ pc = "submit"
    /\ cpu_count >= 2
    /\ LET pos == Len(file) \div cpu_count
       IN  /\ pos >= 1
           /\ ~ AfterTerminator(pos)
           /\ boundaries[1][2] >= pos + 2
           /\ boundaries[1][2] < Len(file)

\* min, max and count of every key of a table
MinMaxCount(t) == [c \in DOMAIN t |-> <<t[c][1], t[c][2], t[c][4]>>]

\* every submitted task has been yielded by as_completed and merged
AllMerged ==
    /\ futures # <<>>
    /\ \A i \in 1 .. Len(futures) :
           futures[i].state = "yielded" /\ ~ futures[i].exc

\* C3: the final table has the same keys, min, max and count for every chunk
\* count, thread count and completion order: every run agrees with the run
\* that reads the whole file as one chunk on one thread
C3_ChunkInvariant ==
    (AllMerged /\ pc \in {"collect", "write", "done"}) =>
        MinMaxCount(overall_stats) =
            MinMaxCount(process_file_chunk(file, 0, Len(file), 1))

\* C4: on a zero-byte input no task fails, the run does not fail, and it
\* ends with an output file of zero rows
C4_EmptyFile ==
    (pc # "idle" /\ Len(file) = 0 /\ ~ io_fault) =>
        /\ \A i \in 1 .. Len(futures) : ~ futures[i].exc
        /\ pc # "failed"
        /\ pc = "done" => (out_open /\ out_rows = <<>>)

\* the line contains the delimiter
HasDelimiter(bl) == \E i \in 1 .. Len(bl) : bl[i] = SEMI

\* the text after the first delimiter
ValueField(bl) ==
    LET i == CHOOSE k \in 1 .. Len(bl) :
                 bl[k] = SEMI /\ \A j \in 1 .. (k - 1) : bl[j] # SEMI
    IN  SubSeq(bl, i + 1, Len(bl))

\* the text before the first delimiter
KeyField(bl) ==
    LET i == CHOOSE k \in 1 .. Len(bl) :
                 bl[k] = SEMI /\ \A j \in 1 .. (k - 1) : bl[j] # SEMI
    IN  SubSeq(bl, 1, i - 1)

\* a base-10 literal: optional sign, digits, at most one ".", some digit
Numeric(fld) ==
    LET t == strip(fld)
        b == IF t # <<>> /\ t[1] \in {43, 45} THEN Tail(t) ELSE t
    IN  /\ \A i \in 1 .. Len(b) : b[i] \in Digits \cup {46}
        /\ Cardinality({ i \in 1 .. Len(b) : b[i] = 46 }) <= 1
        /\ \E i \in 1 .. Len(b) : b[i] \in Digits

\* not one of: undecodable, no delimiter, value field not numeric
NotMalformed(bl) ==
    decodes(bl) /\ HasDelimiter(bl) /\ Numeric(ValueField(bl))

\* C5: lines without delimiter, with a non-numeric value or undecodable never
\* make the run fail and contribute nothing: the final table is the table of
\* the remaining lines, and a file of only such lines gives zero rows
C5_MalformedSkipped ==
    (pc # "idle" /\ Len(file) > 0 /\ ~ io_fault) =>
        /\ pc # "failed"
        /\ \A i \in 1 .. Len(futures) : ~ futures[i].exc
        /\ (AllMerged /\ pc \in {"collect", "write", "done"}) =>
               overall_stats =
                   process_subchunk(SelectSeq(split(file, NL), NotMalformed))
        /\ (pc = "done" /\ SelectSeq(split(file, NL), NotMalformed) = <<>>) =>
               out_rows = <<>>

\* a record of the input format: decodable, exactly one delimiter, a key that
\* is not empty after trimming, a numeric value
ValidRecord(bl) ==
    /\ decodes(bl)
    /\ Cardinality({ i \in 1 .. Len(bl) : bl[i] = SEMI }) = 1
    /\ strip(KeyField(bl)) # <<>>
    /\ Numeric(ValueField(bl))

\* the valid records of the file, as <<key, value in tenths>>
ValidRecords ==
    LET ls == SelectSeq(split(file, NL), ValidRecord)
    IN  [i \in 1 .. Len(ls) |-> <<strip(KeyField(ls[i])), float(ValueField(ls[i]))>>]

RecordKeys == { ValidRecords[i][1] : i \in 1 .. Len(ValidRecords) }

\* the positions of the valid records with key k
RecordsOf(k) == { i \in 1 .. Len(ValidRecords) : ValidRecords[i][1] = k }

RECURSIVE SumOf(_)
SumOf(I) ==
    IF I = {} THEN 0
    ELSE LET i == CHOOSE j \in I : TRUE
         IN  ValidRecords[i][2] + SumOf(I \ {i})

MinOf(k) ==
    CHOOSE v \in { ValidRecords[i][2] : i \in RecordsOf(k) } :
        \A i \in RecordsOf(k) : v <= ValidRecords[i][2]

MaxOf(k) ==
    CHOOSE v \in { ValidRecords[i][2] : i \in RecordsOf(k) } :
        \A i \in RecordsOf(k) : v >= ValidRecords[i][2]

\* t tenths is the smallest multiple of 0.1 that is >= n / d
LeastTenthAtLeast(t, n, d) == t * d >= 10 * n /\ (t - 1) * d < 10 * n

\* C6: a successful run writes exactly one row per key of a valid record, in
\* strictly ascending key order, carrying the key's minimum, mean and maximum
\* over all valid records of the file
C6_Output ==
    pc = "done" =>
        /\ { out_rows[i][1] : i \in 1 .. Len(out_rows) } = RecordKeys
        /\ Len(out_rows) = Cardinality(RecordKeys)
        /\ \A i \in 1 .. (Len(out_rows) - 1) :
               str_lt(out_rows[i][1], out_rows[i + 1][1])
        /\ \A i \in 1 .. Len(out_rows) :
               LET k == out_rows[i][1]
               IN  k \in RecordKeys =>
                       /\ out_rows[i][2] = MinOf(k)
                       /\ LeastTenthAtLeast(out_rows[i][3], SumOf(RecordsOf(k)),
                                            10 * Cardinality(RecordsOf(k)))
                       /\ out_rows[i][4] = MaxOf(k)

\* C7: merge_stats is commutative and associative on min, max and count:
\* merging a with b agrees with merging b with a, and merging (a with b) with
\* c agrees with merging a with (b with c)
C7_CommAssoc ==
    /\ m_pc = "called" =>
           MinMaxCount(stats1) = MinMaxCount(merge_stats(pre2, pre1))
    /\ m_pc = "again" =>
           MinMaxCount(stats1) =
               MinMaxCount(merge_stats(pre1, merge_stats(pre2, stats3)))

\* C8 as claimed: merge_stats(a, b) leaves both a and b exactly as they were
\* before the call
C8_Pure ==
    m_pc = "called" =>
        /\ stats1 = pre1
        /\ stats2 = pre2

\* C8 as amended: merge_stats(a, b) leaves b as it was; it stores the
\* combination into a itself and returns a: a then has the keys of both
\* tables, keeps the aggregates of keys b lacks, takes b's aggregates for the
\* keys it lacked, and holds the combined aggregate for the keys of both
C8_InPlace ==
    m_pc = "called" =>
        /\ stats2 = pre2
        /\ m_ret = "stats1"
        /\ DOMAIN stats1 = (DOMAIN pre1) \cup (DOMAIN pre2)
        /\ \A c \in DOMAIN stats1 :
               /\ c \notin DOMAIN pre2 => stats1[c] = pre1[c]
               /\ c \notin DOMAIN pre1 => stats1[c] = pre2[c]
               /\ (c \in DOMAIN pre1 /\ c \in DOMAIN pre2) =>
                      /\ stats1[c][4] = pre1[c][4] + pre2[c][4]
                      /\ stats1[c][3] = fadd(pre1[c][3], pre2[c][3])
                      /\ stats1[c][1] \in {pre1[c][1], pre2[c][1]}
                      /\ stats1[c][2] \in {pre1[c][2], pre2[c][2]}

\* both tables hold the key "a" and the call changed the first one
C8_Witness ==
    /\ m_pc = "called"
    /\ <<97>> \in DOMAIN pre1
    /\ <<97>> \in DOMAIN pre2
    /\ <<98>> \in (DOMAIN pre2) \ (DOMAIN pre1)
    /\ stats1 # pre1
    /\ stats1[<<97>>][4] >= 3

\* the total count of key c over the results of all tasks
RECURSIVE CountOver(_, _)
CountOver(c, i) ==
    IF i = 0 THEN 0
    ELSE (IF c \in DOMAIN futures[i].result THEN futures[i].result[c][4] ELSE 0)
         + CountOver(c, i - 1)

\* a step before output has failed: the splitter, or some worker task
FailedBeforeOutput ==
    \/ pc = "failed" /\ boundaries = <<>>
    \/ \E i \in 1 .. Len(futures) : futures[i].exc

\* C9: once the splitter or any worker task has failed, the output file is
\* never opened or written and the run does not succeed; a run that succeeds
\* has merged the result of every task
C9_AbortNoOutput ==
    /\ FailedBeforeOutput =>
           (~ out_open /\ out_rows = <<>> /\ pc \notin {"write", "done"})
    /\ (\E i \in 1 .. Len(futures) :
            futures[i].exc /\ futures[i].state = "yielded") => pc = "failed"
    /\ pc \in {"write", "done"} =>
           /\ AllMerged
           /\ \A i \in 1 .. Len(futures) :
                  DOMAIN futures[i].result \subseteq DOMAIN overall_stats
           /\ \A c \in DOMAIN overall_stats :
                  overall_stats[c][4] = CountOver(c, Len(futures))

\* one task's result has been merged, another task has raised and main has
\* aborted with the output file unopened
C9_Witness ==
    /\ pc = "failed"
    /\ ~ out_open
    /\ overall_stats # EmptyStats
    /\ \E i \in 1 .. Len(futures) :
           futures[i].exc /\ futures[i].state = "yielded"
    /\ \E i \in 1 .. Len(futures) :
           ~ futures[i].exc /\ futures[i].state = "yielded"

\* C10: round_up(x) is the smallest multiple of 0.1 that is >= x, for
\* negative x too (round_up(2.341) = 2.4, round_up(-0.15) = -0.1,
\* round_up(3.0) = 3.0), and every row main writes carries round_up of the
\* key's min, of sum / count and of max
C10_RoundUp ==
    /\ r_pc = "called" =>
           /\ LeastTenthAtLeast(r_res, r_x.n, r_x.d)
           /\ r_x = Rat(2341, 1000) => r_res = 24
           /\ r_x = Rat(0 - 150, 1000) => r_res = 0 - 1
           /\ r_x = Rat(3000, 1000) => r_res = 30
    /\ \A i \in 1 .. Len(out_rows) :
           LET st == overall_stats[out_rows[i][1]]
           IN  /\ LeastTenthAtLeast(out_rows[i][2], st[1], 10)
               /\ LeastTenthAtLeast(out_rows[i][3], st[3], 10 * st[4])
               /\ LeastTenthAtLeast(out_rows[i][4], st[2], 10)

\* round_up has been applied to -0.15 and has returned -0.1
C10_Witness ==
    /\ r_pc = "called"
    /\ r_x = Rat(0 - 150, 1000)
    /\ r_res = 0 - 1

\* C11: for a file of length 0 get_chunk_boundaries returns an empty sequence
\* of ranges, for every chunk count
C11_EmptyNoRanges ==
    (pc = "submit" /\ Len(file) = 0) => boundaries = <<>>

\* range i is empty
EmptyRange(i) == boundaries[i][1] = boundaries[i][2]

\* C12 as claimed: for a non-empty file no range is empty, except possibly
\* the final one
C12_OnlyLastEmpty ==
    (pc = "submit" /\ Len(file) > 0) =>
        \A i \in 1 .. (Len(boundaries) - 1) : ~ EmptyRange(i)

\* C12 as amended: for a non-empty file the first range is not empty and no
\* empty range is followed by a non-empty one; the empty ranges (several when
\* the chunk count exceeds the number of lines) are the final ranges
C12_EmptyOnlyTrailing ==
    (pc = "submit" /\ Len(file) > 0) =>
        /\ ~ EmptyRange(1)
        /\ \A i \in 1 .. (Len(boundaries) - 1) :
               EmptyRange(i) => EmptyRange(i + 1)

\* a two-line file is split into three ranges, of which only the last is
\* empty
C12_Witness ==
    /\ pc = "submit"
    /\ cpu_count = 3
    /\ Len(file) >= 4
    /\ ~ EmptyRange(1)
    /\ ~ EmptyRange(2)
    /\ boundaries[2][1] > 0
    /\ EmptyRange(3)

\* the tables of the pipeline: the result of every task and main's table
PipelineTables ==
    { futures[i].result : i \in 1 .. Len(futures) } \cup {overall_stats}

\* C13: a line whose key field is empty after trimming is skipped: no table
\* ever holds an aggregate under the empty key
C13_NoEmptyKey ==
    \A t \in PipelineTables : <<>> \notin DOMAIN t

\* a <= b on floats
FloatLe(a, b) == a # NaN /\ b # NaN /\ a <= b

\* C14: in every table every key present has count >= 1, min <= max and a
\* finite sum, also for value fields such as nan that float() accepts
C14_AggregateInvariant ==
    \A t \in PipelineTables :
        \A c \in DOMAIN t :
            /\ t[c][4] >= 1
            /\ FloatLe(t[c][1], t[c][2])
            /\ t[c][3] # NaN

\* the result of task i has been merged into overall_stats
Merged(i) == futures[i].state = "yielded" /\ ~ futures[i].exc

\* task i has not completed yet
Outstanding(i) == futures[i].state = "pending"

\* C15 as claimed: no partial table is merged into the overall table until
\* every dispatched task has completed
C15_Barrier ==
    (\E i \in 1 .. Len(futures) : Merged(i)) =>
        \A j \in 1 .. Len(futures) : ~ Outstanding(j)

\* C15 as amended: the barrier lies in front of the output, not in front of
\* merging: the output file is not opened, and main is not past the
\* collecting loop, while a dispatched task is outstanding
C15_JoinBeforeOutput ==
    (out_open \/ pc \in {"write", "done"}) =>
        \A j \in 1 .. Len(futures) : ~ Outstanding(j)

\* one task's table has been merged while another task is still running
C15_Witness ==
    /\ pc = "collect"
    /\ overall_stats # EmptyStats
    /\ \E i \in 1 .. Len(futures) : Merged(i)
    /\ \E j \in 1 .. Len(futures) : Outstanding(j)

\* the total count of key c over the merged results among tasks 1 .. i
RECURSIVE CountMerged(_, _)
CountMerged(c, i) ==
    IF i = 0 THEN 0
    ELSE (IF Merged(i) /\ c \in DOMAIN futures[i].result
          THEN futures[i].result[c][4] ELSE 0)
         + CountMerged(c, i - 1)

\* C16: every task's result is merged into the overall table exactly once
\* (the table counts each merged result once, at any time), there is one task
\* per range, and the output is opened and rows are written only when all
\* results have been merged
C16_MergedOnceBeforeOutput ==
    /\ futures # <<>> => Len(futures) = Len(boundaries)
    /\ DOMAIN overall_stats =
           UNION { DOMAIN futures[i].result :
                       i \in { j \in 1 .. Len(futures) : Merged(j) } }
    /\ \A c \in DOMAIN overall_stats :
           overall_stats[c][4] = CountMerged(c, Len(futures))
    /\ (out_open \/ out_rows # <<>> \/ pc = "done") =>
           \A i \in 1 .. Len(futures) : Merged(i)

\* a successful run of three tasks, two of them with records of the same
\* key, has written its row
C16_Witness ==
    /\ pc = "done"
    /\ Len(futures) = 3
    /\ out_rows # <<>>
    /\ \E i, j \in 1 .. Len(futures) :
           /\ i # j
           /\ DOMAIN futures[i].result # {}
           /\ DOMAIN futures[i].result = DOMAIN futures[j].result

\* the line has exactly one delimiter and a value field float() converts
TwoFields(bl) ==
    /\ decodes(bl)
    /\ Cardinality({ i \in 1 .. Len(bl) : bl[i] = SEMI }) = 1
    /\ ~ float_raises(ValueField(bl))

\* s has no leading or trailing whitespace
Trimmed(s) == s = <<>> \/ (s[1] \notin Whitespace /\ s[Len(s)] \notin Whitespace)

\* the positions of the lines of the file accepted under the trimmed key c
AcceptedUnder(c) ==
    LET ls == split(file, NL)
    IN  { i \in 1 .. Len(ls) : TwoFields(ls[i]) /\ strip(KeyField(ls[i])) = c }

\* C17: a line contributes iff it splits on the delimiter into exactly two
\* fields (a line with more delimiters contributes to no key), and it
\* contributes under its trimmed key: the final table's keys are trimmed and
\* each counts all accepted lines whose keys differ only in surrounding
\* whitespace
C17_TwoFieldsTrimmed ==
    (AllMerged /\ pc \in {"collect", "write", "done"}) =>
        /\ \A c \in DOMAIN overall_stats :
               Trimmed(c) /\ overall_stats[c][4] = Cardinality(AcceptedUnder(c))
        /\ \A i \in 1 .. Len(split(file, NL)) :
               TwoFields(split(file, NL)[i]) =>
                   strip(KeyField(split(file, NL)[i])) \in DOMAIN overall_stats

\* the file " a ;2 ", "a;1" has been aggregated: both lines count under "a"
C17_Witness ==
    /\ AllMerged
    /\ pc = "done"
    /\ Len(file) >= 10
    /\ file[1] = 32
    /\ DOMAIN overall_stats = { <<97>> }
    /\ overall_stats[<<97>>][4] = 2
    /\ overall_stats[<<97>>][1] = 10
    /\ overall_stats[<<97>>][2] = 20

\* the ranges the loop of get_chunk_boundaries has built when it ends, before
\* the end of the last one is overwritten
LoopRanges == boundaries_loop(file, Len(file) \div cpu_count, cpu_count, 0, 0)

\* C19: the loop of get_chunk_boundaries already ends the last range at
\* file_size, so overwriting that end changes nothing; exactly n ranges are
\* returned, and every empty range is (file_size, file_size) and is followed
\* by empty ranges only
C19_ForcedEndNoOp ==
    pc = "submit" =>
        /\ Len(LoopRanges) = cpu_count
        /\ LoopRanges[cpu_count][2] = Len(file)
        /\ boundaries = LoopRanges
        /\ Len(boundaries) = cpu_count
        /\ \A i \in 1 .. Len(boundaries) :
               EmptyRange(i) =>
                   /\ boundaries[i] = <<Len(file), Len(file)>>
                   /\ \A j \in i .. Len(boundaries) : EmptyRange(j)

\* a file without a final terminator whose length is not a multiple of n has
\* been split into n >= 2 ranges, the last one not empty
C19_Witness ==
    /\ pc = "submit"
    /\ cpu_count >= 2
    /\ Len(file) > 0
    /\ file[Len(file)] # NL
    /\ Len(file) % cpu_count # 0
    /\ \E i \in 1 .. Len(file) : file[i] = NL
    /\ boundaries[Len(boundaries)][1] > 0
    /\ ~ EmptyRange(Len(boundaries))

\* C18: process_chunk_lines(lines, num_threads) returns the keys and the
\* per-key min, max and count that process_subchunk(lines) returns
C18_ChunkedAsSequential ==
    c_pc = "called" =>
        MinMaxCount(c_res) = MinMaxCount(process_subchunk(c_lines))

\* C20: merge_stats(stats1, stats2) shares stats2's list for a key stats1
\* lacks, and a later merge that combines this key binds a new list in stats1
\* instead of updating the shared one: after each merge into stats1, the
\* lists held by every table merged so far hold what they held when the
\* table was built, and stats1 holds the merged values
C20_MergedTablesKept ==
    m_pc \in {"called", "again"} =>
        /\ Deref(heap, ref2) = pre2
        /\ Deref(heap, ref3) = stats3
        /\ \A o \in DOMAIN heap : o[1] \in {2, 3} =>
               heap[o] = (IF o[1] = 2 THEN pre2 ELSE stats3)[o[2]]
        /\ Deref(heap, ref1) = stats1
        /\ m_pc = "called" =>
               \A city \in (DOMAIN pre2) \ (DOMAIN pre1) : ref1[city] = ref2[city]

\* stats1 took the list of "b" from stats2 by reference, and the next merge
\* combined "b" with the third table's aggregate
C20_Witness ==
    /\ m_pc = "again"
    /\ <<98>> \in ((DOMAIN pre2) \ (DOMAIN pre1)) \cap (DOMAIN stats3)
    /\ ref2[<<98>>] = <<2, <<98>>>>
    /\ ref1[<<98>>] = <<5, <<98>>>>
    /\ heap[ref1[<<98>>]] # heap[ref2[<<98>>]]
    /\ heap[ref2[<<98>>]] = pre2[<<98>>]

====
